---- MODULE Spec2Model ----
(***************************************************************************)
(* A model of the DealWise price-comparison API.  The repository holds two *)
(* near-duplicate services:                                                *)
(*   "root"    : src/main.py          (synchronous handlers, global db)    *)
(*   "backend" : src/backend/main.py  (async handlers, src/backend/        *)
(*                                     database.py with a lazy get_db)     *)
(* The variable svc says which of the two programs is running.             *)
(*                                                                         *)
(* Conventions.                                                            *)
(*  - Text that the code parses (the providers parameter, a favorite       *)
(*    identifier) is a sequence of one-character strings, so that split,   *)
(*    strip, lower and the ObjectId syntax are computed character by       *)
(*    character.  Text that is only stored and compared is a TLA+ string.  *)
(*  - An Optional value is a sequence of length 0 (None) or 1.             *)
(*  - Prices are counted in hundredths of a currency unit, so 999 + 50.5*i *)
(*    is 99900 + 5050*i.                                                   *)
(*  - Fields that are only passed through and never read back by a        *)
(*    handler (image_url, url, rating, total_reviews, availability, and    *)
(*    the title of a search result) are left out of records.               *)
(***************************************************************************)
EXTENDS Integers, Sequences, FiniteSets, TLC

VARIABLES
    svc,                    \* "root" or "backend": the program that runs
    environ,                \* os.environ restricted to the credential variables
    AMAZON_KEYS_PRESENT,    \* backend module global (src/backend/main.py:20)
    FLIPKART_KEYS_PRESENT,  \* backend module global (src/backend/main.py:25)
    root_db,                \* root: the imported global db, <<>> when None
    client_db,              \* backend: database._db, <<>> when None
    clients,                \* number of AsyncIOMotorClient objects constructed
    store,                  \* the document store: collection name -> documents
    nextId,                 \* the next ObjectId the driver generates
    clock,                  \* the wall clock, read by datetime.now/utcnow
    resp,                   \* the response to the last request
    fault                   \* the store failures injected into the last request

vars == <<svc, environ, AMAZON_KEYS_PRESENT, FLIPKART_KEYS_PRESENT, root_db,
          client_db, clients, store, nextId, clock, resp, fault>>

----------------------------------------------------------------------------
(* Bounds of the model *)

MaxLimit == 2           \* largest limit parameter of a search
MaxFetchLimit == 3      \* largest limit given to an adapter called alone
MaxSearches == 1        \* searches per run in SpecSearch
MaxStoreSearches == 2   \* searches per run in SpecStore
MaxFavWrites == 2       \* favorites created per run in SpecFav
MaxClients == 3         \* cap on the count of constructed clients

----------------------------------------------------------------------------
(* Optional values and small helpers *)

None == <<>>
Some(v) == <<v>>
IsNone(o) == o = <<>>
Val(o) == o[1]

Max(a, b) == IF a >= b THEN a ELSE b
Min(a, b) == IF a <= b THEN a ELSE b

RECURSIVE Reverse(_)
Reverse(s) == IF s = <<>> THEN <<>> ELSE Append(Reverse(Tail(s)), Head(s))

----------------------------------------------------------------------------
(* Python string operations on character sequences *)

Whitespace == {" ", "\t"}

UpperToLower ==
    [c \in {"A", "B", "F", "I", "K", "L", "M", "N", "O", "P", "R", "T", "Z"} |->
        CASE c = "A" -> "a" [] c = "B" -> "b" [] c = "F" -> "f" [] c = "I" -> "i"
          [] c = "K" -> "k" [] c = "L" -> "l" [] c = "M" -> "m" [] c = "N" -> "n"
          [] c = "O" -> "o" [] c = "P" -> "p" [] c = "R" -> "r" [] c = "T" -> "t"
          [] c = "Z" -> "z"]

\* str.lower()
lower(s) == [i \in 1..Len(s) |->
                IF s[i] \in DOMAIN UpperToLower THEN UpperToLower[s[i]] ELSE s[i]]

RECURSIVE lstrip(_)
lstrip(s) == IF s # <<>> /\ Head(s) \in Whitespace THEN lstrip(Tail(s)) ELSE s

\* str.strip()
strip(s) == Reverse(lstrip(Reverse(lstrip(s))))

RECURSIVE split(_, _)
\* str.split(sep) for a one-character separator: always at least one piece
split(s, sep) ==
    IF \A i \in 1..Len(s) : s[i] # sep THEN <<s>>
    ELSE LET k == CHOOSE i \in 1..Len(s) :
                      s[i] = sep /\ \A j \in 1..(i - 1) : s[j] # sep
         IN <<SubSeq(s, 1, k - 1)>> \o split(SubSeq(s, k + 1, Len(s)), sep)

RECURSIVE join(_, _)
\* sep.join(parts)
join(parts, sep) ==
    IF parts = <<>> THEN <<>>
    ELSE IF Len(parts) = 1 THEN parts[1]
         ELSE parts[1] \o <<sep>> \o join(Tail(parts), sep)

S_amazon == <<"a", "m", "a", "z", "o", "n">>
S_flipkart == <<"f", "l", "i", "p", "k", "a", "r", "t">>
S_bogus == <<"b", "o", "g", "u", "s">>

\* "x in list"
Contains(list, x) == \E i \in 1..Len(list) : list[i] = x

----------------------------------------------------------------------------
(* Credentials *)

AmazonVars == {"AMAZON_ACCESS_KEY", "AMAZON_SECRET_KEY", "AMAZON_PARTNER_TAG"}
FlipkartVars == {"FLIPKART_AFFILIATE_ID", "FLIPKART_AFFILIATE_TOKEN"}
CredentialVars == AmazonVars \cup FlipkartVars

\* os.getenv(name): None when unset, else the value (possibly the empty string)
getenv(env, name) == env[name]

\* Python truthiness of an Optional[str]
Truthy(o) == ~IsNone(o) /\ Val(o) # ""

\* a variant that forgets AMAZON_PARTNER_TAG
has_amazon_keys_two_of_three ==
    Truthy(getenv(environ, "AMAZON_ACCESS_KEY"))
    /\ Truthy(getenv(environ, "AMAZON_SECRET_KEY"))

has_amazon_keys ==
    Truthy(getenv(environ, "AMAZON_ACCESS_KEY"))
    /\ Truthy(getenv(environ, "AMAZON_SECRET_KEY"))
    /\ Truthy(getenv(environ, "AMAZON_PARTNER_TAG"))

has_flipkart_keys ==
    Truthy(getenv(environ, "FLIPKART_AFFILIATE_ID"))
    /\ Truthy(getenv(environ, "FLIPKART_AFFILIATE_TOKEN"))

\* the values the backend computes at import time
backend_amazon_keys_at_import(env) ==
    \A v \in AmazonVars : Truthy(getenv(env, v))

backend_flipkart_keys_at_import(env) ==
    \A v \in FlipkartVars : Truthy(getenv(env, v))

----------------------------------------------------------------------------
(* Provider adapters *)

Sku(prefix, i) == prefix \o "-" \o ToString(i)

MockListing(prefix, merchant, base, step, i) ==
    [sku |-> Sku(prefix, i), merchant |-> merchant,
     price |-> base + i * step, currency |-> "INR"]

\* a variant that counts from 0: range(limit) in place of range(1, limit + 1)
fetch_amazon_from_zero(query, limit) ==
    IF ~has_amazon_keys
    THEN [j \in 1..limit |-> MockListing("AMZ", "amazon", 99900, 5050, j - 1)]
    ELSE <<>>

\* root fetch_amazon: range(1, limit + 1) is empty when limit < 1
fetch_amazon(query, limit) ==
    IF ~has_amazon_keys
    THEN [i \in 1..limit |-> MockListing("AMZ", "amazon", 99900, 5050, i)]
    ELSE <<>>

fetch_flipkart(query, limit) ==
    IF ~has_flipkart_keys
    THEN [i \in 1..limit |-> MockListing("FK", "flipkart", 97900, 4830, i)]
    ELSE <<>>

backend_fetch_amazon(query, limit) ==
    IF ~AMAZON_KEYS_PRESENT
    THEN [i \in 1..limit |-> MockListing("AMZ", "amazon", 99900, 1000, i)]
    ELSE <<>>

backend_fetch_flipkart(query, limit) ==
    IF ~FLIPKART_KEYS_PRESENT
    THEN [i \in 1..limit |-> MockListing("FK", "flipkart", 89900, 1200, i)]
    ELSE <<>>

----------------------------------------------------------------------------
(* Inputs *)

Queries == {"phone", "tv"}
Limits == (-1)..MaxFetchLimit
EnvValues == {None, Some(""), Some("k")}

EnvNoKeys == [v \in CredentialVars |-> None]
EnvAllKeys == [v \in CredentialVars |-> Some("k")]

Collections == {"listing", "listings", "pricehistory", "searchquery", "favorite"}

NoResp == [op |-> "none", status |-> 0]
NoFault == {}

----------------------------------------------------------------------------
(* Initial states *)

InitWith(envs) ==
    /\ svc \in {"root", "backend"}
    /\ environ \in envs
    /\ AMAZON_KEYS_PRESENT = backend_amazon_keys_at_import(environ)
    /\ FLIPKART_KEYS_PRESENT = backend_flipkart_keys_at_import(environ)
    /\ root_db \in IF svc = "root" THEN {None, Some("db")} ELSE {None}
    /\ client_db = None
    /\ clients = 0
    /\ store = [c \in Collections |-> <<>>]
    /\ nextId = 1
    /\ clock = 1
    /\ resp = NoResp
    /\ fault = NoFault

Init == InitWith({EnvNoKeys, EnvAllKeys})

InitFetch == InitWith([CredentialVars -> EnvValues])

----------------------------------------------------------------------------
(* Requests that touch no store *)

Answer(r) ==
    /\ resp' = r
    /\ fault' = NoFault
    /\ UNCHANGED <<svc, environ, AMAZON_KEYS_PRESENT, FLIPKART_KEYS_PRESENT,
                   root_db, client_db, clients, store, nextId, clock>>

\* GET /providers, root
providers_status ==
    /\ svc = "root"
    /\ Answer([op |-> "providers", status |-> 200,
               body |-> [amazon |-> [configured |-> has_amazon_keys],
                         flipkart |-> [configured |-> has_flipkart_keys]]])

\* GET /providers, backend
backend_providers ==
    /\ svc = "backend"
    /\ Answer([op |-> "providers", status |-> 200,
               body |-> [providers |->
                           << [name |-> "amazon", enabled |-> AMAZON_KEYS_PRESENT],
                              [name |-> "flipkart", enabled |-> FLIPKART_KEYS_PRESENT] >>]])

\* a direct call of an adapter
CallFetch(provider, q, n) ==
    Answer([op |-> "fetch", status |-> 200, provider |-> provider,
            query |-> q, limit |-> n,
            body |-> CASE svc = "root" /\ provider = "amazon" -> fetch_amazon(q, n)
                       [] svc = "root" /\ provider = "flipkart" -> fetch_flipkart(q, n)
                       [] svc = "backend" /\ provider = "amazon" -> backend_fetch_amazon(q, n)
                       [] svc = "backend" /\ provider = "flipkart" -> backend_fetch_flipkart(q, n)])

NextFetch ==
    \/ providers_status
    \/ backend_providers
    \/ \E p \in {"amazon", "flipkart"}, q \in Queries, n \in Limits : CallFetch(p, q, n)

SpecFetch == InitFetch /\ [][NextFetch]_vars

----------------------------------------------------------------------------
(* ObjectId: a 12-byte value, written as 24 hexadecimal digits *)

HexDigits == <<"0", "1", "2", "3", "4", "5", "6", "7", "8", "9",
               "a", "b", "c", "d", "e", "f">>
UpperHex == <<"A", "B", "C", "D", "E", "F">>
ObjectIdLen == 24

HexVal(c) ==
    IF \E i \in 1..16 : HexDigits[i] = c
    THEN (CHOOSE i \in 1..16 : HexDigits[i] = c) - 1
    ELSE (CHOOSE i \in 1..6 : UpperHex[i] = c) + 9

IsHexChar(c) == (\E i \in 1..16 : HexDigits[i] = c) \/ (\E i \in 1..6 : UpperHex[i] = c)

RECURSIVE ToHex(_, _)
\* k written with exactly width lower-case hexadecimal digits
ToHex(k, width) ==
    IF width = 0 THEN <<>>
    ELSE Append(ToHex(k \div 16, width - 1), HexDigits[(k % 16) + 1])

RECURSIVE ParseHex(_)
ParseHex(s) ==
    IF s = <<>> THEN 0
    ELSE 16 * ParseHex(SubSeq(s, 1, Len(s) - 1)) + HexVal(s[Len(s)])

\* str(ObjectId)
str_oid(k) == ToHex(k, ObjectIdLen)

\* bson.ObjectId.is_valid for a str
ObjectIdValid(s) == Len(s) = ObjectIdLen /\ \A i \in 1..Len(s) : IsHexChar(s[i])

\* ObjectId(s) for a valid s
ObjectId(s) == ParseHex(s)

\* datetime.isoformat()
isoformat(t) == "T+" \o ToString(t)

----------------------------------------------------------------------------
(* The document store (the MongoDB server behind both services) *)

EmptyDoc == [x \in {} |-> 0]

\* dict(**a, **b): the later keys win
Merge(a, b) == b @@ a

\* a query filter matches a document when every filtered field is equal
Matches(doc, filt) ==
    \A f \in DOMAIN filt : f \in DOMAIN doc /\ doc[f] = filt[f]

RECURSIVE Filter(_, _)
Filter(docs, filt) ==
    IF docs = <<>> THEN <<>>
    ELSE IF Matches(Head(docs), filt) THEN <<Head(docs)>> \o Filter(Tail(docs), filt)
         ELSE Filter(Tail(docs), filt)

\* The store defines no order for a find without a sort ("natural order").
\* It is insertion order in practice; the reverse stands for any other order.
NaturalOrders(docs) == {docs, Reverse(docs)}

RECURSIVE InsertDesc(_, _, _)
\* d put into the key-descending sequence s, after the documents of equal key
InsertDesc(s, d, key) ==
    IF s = <<>> THEN <<d>>
    ELSE IF Head(s)[key] >= d[key] THEN <<Head(s)>> \o InsertDesc(Tail(s), d, key)
         ELSE <<d>> \o s

RECURSIVE SortDesc(_, _)
\* cursor.sort(key, -1): stable with respect to the order the documents come in
SortDesc(docs, key) ==
    IF docs = <<>> THEN <<>>
    ELSE InsertDesc(SortDesc(SubSeq(docs, 1, Len(docs) - 1), key), docs[Len(docs)], key)

Abs(n) == IF n < 0 THEN -n ELSE n

\* cursor.limit(n): 0 means no limit, a negative n limits to |n|
Limit(docs, n) ==
    IF n = 0 THEN docs ELSE SubSeq(docs, 1, Min(Len(docs), Abs(n)))

\* insert_one: the driver gives the document the next ObjectId
insert_one(w, coll, doc) ==
    [w EXCEPT !.store[coll] = Append(@, Merge(doc, [_id |-> w.nextId])),
              !.nextId = @ + 1,
              !.last_id = w.nextId]

RECURSIVE RemoveFirst(_, _)
RemoveFirst(docs, id) ==
    IF docs = <<>> THEN <<>>
    ELSE IF Head(docs)._id = id THEN Tail(docs)
         ELSE <<Head(docs)>> \o RemoveFirst(Tail(docs), id)

\* the number of documents delete_one({"_id": id}) removes
deleted_count(docs, id) == IF \E i \in 1..Len(docs) : docs[i]._id = id THEN 1 ELSE 0

----------------------------------------------------------------------------
(* Data access layer.  A world w is the part of the state a handler        *)
(* changes: [store, nextId, client_db, clients, ok, failed, last_id].      *)

World ==
    [store |-> store, nextId |-> nextId, client_db |-> client_db,
     clients |-> clients, ok |-> TRUE, failed |-> {}, last_id |-> 0]

OpKey(op) == [coll |-> op.coll,
              sku |-> IF "sku" \in DOMAIN op.data THEN op.data.sku ELSE ""]

\* backend database.get_db: no await between the test and the assignment
get_db(w) ==
    IF IsNone(w.client_db)
    THEN [w EXCEPT !.client_db = Some("db"), !.clients = @ + 1]
    ELSE w

\* backend database.create_document
create_document(w, coll, data, now, fails) ==
    LET w1 == get_db(w)
        doc == Merge(data, [created_at |-> now])
    IN IF fails
       THEN [w1 EXCEPT !.ok = FALSE,
                       !.failed = @ \cup {OpKey([coll |-> coll, data |-> data])}]
       ELSE [insert_one(w1, coll, doc) EXCEPT !.ok = TRUE]

\* root database.create_document: raises when there is no database
root_create_document(w, coll, data, now, fails) ==
    LET doc == Merge(data, [created_at |-> now])
    IN IF fails \/ IsNone(root_db)
       THEN [w EXCEPT !.ok = FALSE,
                      !.failed = @ \cup {OpKey([coll |-> coll, data |-> data])}]
       ELSE [insert_one(w, coll, doc) EXCEPT !.ok = TRUE]

\* backend database.get_documents, once the store has produced docs in some order
get_documents(ordered, filt, limit) ==
    LET found == Limit(Filter(ordered, filt), limit)
    IN [i \in 1..Len(found) |-> [found[i] EXCEPT !._id = str_oid(@)]]

\* root serialize_mongo: _id to str, datetimes to ISO-8601
serialize_mongo(doc) ==
    [f \in DOMAIN doc |->
        IF f = "_id" THEN str_oid(doc[f])
        ELSE IF f \in {"fetched_at", "timestamp", "created_at"} THEN isoformat(doc[f])
        ELSE doc[f]]

Commit(w, r) ==
    /\ store' = w.store
    /\ nextId' = w.nextId
    /\ client_db' = w.client_db
    /\ clients' = w.clients
    /\ fault' = w.failed
    /\ resp' = r
    /\ UNCHANGED <<svc, environ, AMAZON_KEYS_PRESENT, FLIPKART_KEYS_PRESENT, root_db>>

----------------------------------------------------------------------------
(* GET /search *)

DefaultProviders == <<S_amazon, S_flipkart>>

RECURSIVE StripLowerAll(_)
StripLowerAll(ps) ==
    IF ps = <<>> THEN <<>> ELSE <<lower(strip(Head(ps)))>> \o StripLowerAll(Tail(ps))

RECURSIVE DropBlank(_)
DropBlank(ps) ==
    IF ps = <<>> THEN <<>>
    ELSE IF strip(Head(ps)) # <<>> THEN <<Head(ps)>> \o DropBlank(Tail(ps))
         ELSE DropBlank(Tail(ps))

\* "providers.split(",") if providers else [...]": None and "" are both falsy
RequestedProviders(providers) ==
    IF ~IsNone(providers) /\ Val(providers) # <<>>
    THEN split(Val(providers), ",")
    ELSE DefaultProviders

\* root: blank pieces are dropped, the others stripped and lower-cased
root_provider_list(providers) ==
    StripLowerAll(DropBlank(RequestedProviders(providers)))

\* backend: every piece is stripped and lower-cased, blank ones are kept
backend_prov_list(providers) ==
    IF ~IsNone(providers) /\ Val(providers) # <<>>
    THEN StripLowerAll(split(Val(providers), ","))
    ELSE DefaultProviders

\* a variant that asks the adapters in the order the request names them
root_all_results_request_order(q, limit, provider_list) ==
    IF provider_list # <<>> /\ provider_list[1] = S_flipkart
    THEN (IF Contains(provider_list, S_flipkart) THEN fetch_flipkart(q, limit) ELSE <<>>)
         \o (IF Contains(provider_list, S_amazon) THEN fetch_amazon(q, limit) ELSE <<>>)
    ELSE (IF Contains(provider_list, S_amazon) THEN fetch_amazon(q, limit) ELSE <<>>)
         \o (IF Contains(provider_list, S_flipkart) THEN fetch_flipkart(q, limit) ELSE <<>>)

\* root: amazon is asked first, then flipkart
root_all_results(q, limit, provider_list) ==
    (IF Contains(provider_list, S_amazon) THEN fetch_amazon(q, limit) ELSE <<>>)
    \o (IF Contains(provider_list, S_flipkart) THEN fetch_flipkart(q, limit) ELSE <<>>)

backend_results(q, limit, prov_list) ==
    (IF Contains(prov_list, S_amazon) THEN backend_fetch_amazon(q, limit) ELSE <<>>)
    \o (IF Contains(prov_list, S_flipkart) THEN backend_fetch_flipkart(q, limit) ELSE <<>>)

RECURSIVE root_item_ops(_, _)
\* root: per result a listing document, then a pricehistory document
root_item_ops(results, now) ==
    IF results = <<>> THEN <<>>
    ELSE LET item == Head(results)
         IN << [coll |-> "listing",
                data |-> [sku |-> item.sku, merchant |-> item.merchant,
                          price |-> item.price, currency |-> item.currency,
                          fetched_at |-> now]],
               [coll |-> "pricehistory",
                data |-> [sku |-> item.sku, merchant |-> item.merchant,
                          price |-> item.price, currency |-> item.currency,
                          timestamp |-> now]] >>
            \o root_item_ops(Tail(results), now)

RECURSIVE backend_item_ops(_)
\* backend: per result a listings document, then a pricehistory document
backend_item_ops(results) ==
    IF results = <<>> THEN <<>>
    ELSE LET r == Head(results)
         IN << [coll |-> "listings", data |-> r],
               [coll |-> "pricehistory",
                data |-> [sku |-> r.sku, merchant |-> r.merchant,
                          price |-> r.price, currency |-> r.currency]] >>
            \o backend_item_ops(Tail(results))

RECURSIVE root_persist(_, _, _, _, _)
\* root: every insert is attempted; an exception is swallowed (try/except: pass)
root_persist(w, ops, k, F, now) ==
    IF ops = <<>> THEN w
    ELSE root_persist(root_create_document(w, Head(ops).coll, Head(ops).data, now, k \in F),
                      Tail(ops), k + 1, F, now)

RECURSIVE backend_persist(_, _, _, _, _)
\* backend: the first exception leaves the handler
backend_persist(w, ops, k, F, now) ==
    IF ops = <<>> THEN w
    ELSE LET w1 == create_document(w, Head(ops).coll, Head(ops).data, now, k \in F)
         IN IF w1.ok THEN backend_persist(w1, Tail(ops), k + 1, F, now)
            ELSE w1

\* F names the inserts of a request that fail, by position; positions past the
\* last insert of the request name nothing
MaxOps == 4 * (MaxLimit + 1) + 1
AllFail == 1..MaxOps

SearchReq(q, limit, providers) == [query |-> q, limit |-> limit, providers |-> providers]

\* root search_products
search_products(q, limit, providers, F) ==
    /\ svc = "root"
    /\ LET provider_list == root_provider_list(providers)
           all_results == root_all_results(q, limit, provider_list)
           now == clock
           ops == root_item_ops(all_results, now)
                  \o << [coll |-> "searchquery",
                         data |-> [query |-> q, providers |-> provider_list,
                                   created_at |-> now]] >>
       IN   Commit(root_persist(World, ops, 1, F, now),
                   [op |-> "search", status |-> 200, req |-> SearchReq(q, limit, providers),
                    body |-> [query |-> q, providers |-> provider_list,
                              results |-> all_results]])
    /\ clock' = clock + 1

\* backend search
backend_search(q, limit, providers, F) ==
    /\ svc = "backend"
    /\ LET prov_list == backend_prov_list(providers)
           results == backend_results(q, limit, prov_list)
           now == clock
           ops == << [coll |-> "searchquery",
                      data |-> [query |-> q, providers |-> prov_list, limit |-> limit]] >>
                  \o backend_item_ops(results)
       IN   LET w == backend_persist(World, ops, 1, F, now)
            IN Commit(w,
                      IF w.ok
                      THEN [op |-> "search", status |-> 200,
                            req |-> SearchReq(q, limit, providers),
                            body |-> [results |-> results]]
                      ELSE [op |-> "search", status |-> 500,
                            req |-> SearchReq(q, limit, providers)])
    /\ clock' = clock + 1

----------------------------------------------------------------------------
(* SpecSearch: single searches with many spellings of the providers        *)
(* parameter                                                               *)

T_Amazon == <<" ", "A", "m", "a", "z", "o", "n">>
T_FLIPKART == <<"F", "L", "I", "P", "K", "A", "R", "T", " ">>
ProviderTokens == {T_Amazon, T_FLIPKART, S_bogus}

\* absent, empty, every one- and two-piece list of the tokens, the lists of
\* the documentation, and two lists with a blank piece
ProviderParams ==
    {None, Some(<<>>)}
    \cup {Some(t) : t \in ProviderTokens}
    \cup {Some(join(<<a, b>>, ",")) : a \in ProviderTokens, b \in ProviderTokens}
    \cup {Some(S_amazon), Some(join(<<S_amazon, S_flipkart>>, ",")),
          Some(join(<<S_flipkart, <<>>>>, ",")), Some(<<" ">>)}

SearchQueries == {"phone"}
SearchLimits == 0..MaxLimit
SearchFaults == {{}, {2}, AllFail}

SearchCount == clock - 1

NextSearch ==
    /\ SearchCount < MaxSearches
    /\ \E q \in SearchQueries, n \in SearchLimits, p \in ProviderParams, F \in SearchFaults :
          \/ search_products(q, n, p, F)
          \/ backend_search(q, n, p, F)

SpecSearch == Init /\ [][NextSearch]_vars

----------------------------------------------------------------------------
(* Claims about /search *)

KnownProviders == {S_amazon, S_flipkart}
MockMode == \A v \in CredentialVars : IsNone(environ[v])
SearchAnswered == resp.op = "search" /\ resp.status = 200

\* the pieces a providers parameter names, whatever their case and padding
NamedProviders(p) ==
    IF IsNone(p) \/ Val(p) = <<>> THEN KnownProviders
    ELSE LET pieces == split(Val(p), ",")
         IN {lower(strip(pieces[i])) : i \in 1..Len(pieces)}

Skus(results) == [i \in 1..Len(results) |-> results[i].sku]

AmazonThenFlipkart(n) ==
    [i \in 1..(2 * n) |->
        IF i <= n THEN "AMZ-" \o ToString(i) ELSE "FK-" \o ToString(i - n)]

\* C2: in mock mode a search that selects both amazon and flipkart, in whatever
\* order, case and padding the request names them, answers with exactly
\* AMZ-1..AMZ-n followed by FK-1..FK-n.
C2_AmazonBeforeFlipkart ==
    (SearchAnswered /\ MockMode /\ KnownProviders \subseteq NamedProviders(resp.req.providers))
        => Skus(resp.body.results) = AmazonThenFlipkart(resp.req.limit)

\* a search that named flipkart before amazon, in capitals, answered four results
C2_Witness ==
    /\ SearchAnswered
    /\ MockMode
    /\ resp.req.providers = Some(join(<<T_FLIPKART, T_Amazon>>, ","))
    /\ resp.req.limit = 2
    /\ Len(resp.body.results) = 4

\* C1: no failure of an insert aborts a search or removes a result from its
\* response, and the inserts that did not fail are in the store.
C1_PersistenceNeverAborts ==
    resp.op = "search" =>
        /\ resp.status = 200
        /\ MockMode =>
              \A m \in KnownProviders \cap NamedProviders(resp.req.providers) :
                  Len(SelectSeq(resp.body.results,
                                LAMBDA r : r.merchant = (IF m = S_amazon THEN "amazon" ELSE "flipkart")))
                      = resp.req.limit
        /\ \A i \in 1..Len(resp.body.results) :
              LET r == resp.body.results[i]
              IN \A c \in {"pricehistory", IF svc = "root" THEN "listing" ELSE "listings"} :
                    [coll |-> c, sku |-> r.sku] \notin fault
                        => \E j \in 1..Len(store[c]) :
                              store[c][j].sku = r.sku /\ store[c][j].created_at = clock - 1

\* C4: the provider list a search answers with, and the one it stores, hold
\* only known adapter names; a request naming only unknown providers answers
\* with no results and an empty provider list.
C4_OnlyKnownProviders ==
    SearchAnswered =>
        /\ "providers" \in DOMAIN resp.body
        /\ \A i \in 1..Len(resp.body.providers) : resp.body.providers[i] \in KnownProviders
        /\ \A j \in 1..Len(store["searchquery"]) :
              \A i \in 1..Len(store["searchquery"][j].providers) :
                  store["searchquery"][j].providers[i] \in KnownProviders
        /\ (resp.req.providers = Some(S_bogus))
              => resp.body.results = <<>> /\ resp.body.providers = <<>>

----------------------------------------------------------------------------
(* GET /listings and GET /history/{merchant}/{sku} *)

ListingsDefaultLimit == 50
HistoryDefaultLimit == 50
BackendHistoryDefaultLimit == 100

OrDefault(limit, default) == IF IsNone(limit) THEN default ELSE Val(limit)

\* "if sku: filt["sku"] = sku": None and "" add no condition
ListingsFilter(sku, merchant) ==
    (IF Truthy(sku) THEN [sku |-> Val(sku)] ELSE EmptyDoc)
    @@ (IF Truthy(merchant) THEN [merchant |-> Val(merchant)] ELSE EmptyDoc)

SerializeAll(docs) == [i \in 1..Len(docs) |-> serialize_mongo(docs[i])]

ReadFault(coll, fails) == IF fails THEN {[coll |-> coll, sku |-> ""]} ELSE {}

ReadCommit(w, coll, fails, r) ==
    Commit([w EXCEPT !.failed = ReadFault(coll, fails)], r) /\ UNCHANGED clock

\* root get_listings, reading collection coll
root_listings_from(coll, sku, merchant, limit, fails) ==
    /\ svc = "root"
    /\ LET req == [sku |-> sku, merchant |-> merchant, limit |-> limit]
       IN IF IsNone(root_db) \/ fails
          THEN ReadCommit(World, coll, fails, [op |-> "listings", status |-> 500, req |-> req])
          ELSE \E ordered \in NaturalOrders(store[coll]) :
                 ReadCommit(World, coll, fails,
                     [op |-> "listings", status |-> 200, req |-> req,
                      body |-> SerializeAll(
                          Limit(SortDesc(Filter(ordered, ListingsFilter(sku, merchant)),
                                         "fetched_at"),
                                OrDefault(limit, ListingsDefaultLimit)))])

\* a variant that reads the collection the other service writes
get_listings_other_collection(sku, merchant, limit, fails) ==
    root_listings_from("listings", sku, merchant, limit, fails)

\* root get_listings
get_listings(sku, merchant, limit, fails) ==
    root_listings_from("listing", sku, merchant, limit, fails)

\* root price_history
price_history(merchant, sku, limit, fails) ==
    /\ svc = "root"
    /\ LET req == [sku |-> sku, merchant |-> merchant, limit |-> limit]
       IN IF IsNone(root_db) \/ fails
          THEN ReadCommit(World, "pricehistory", fails,
                          [op |-> "history", status |-> 500, req |-> req])
          ELSE \E ordered \in NaturalOrders(store["pricehistory"]) :
                 ReadCommit(World, "pricehistory", fails,
                     [op |-> "history", status |-> 200, req |-> req,
                      body |-> SerializeAll(
                          Limit(SortDesc(Filter(ordered, [merchant |-> merchant, sku |-> sku]),
                                         "timestamp"),
                                OrDefault(limit, HistoryDefaultLimit)))])

\* backend get_listings
backend_get_listings(sku, merchant, limit, fails) ==
    /\ svc = "backend"
    /\ LET req == [sku |-> sku, merchant |-> merchant, limit |-> limit]
       IN IF fails
          THEN ReadCommit(get_db(World), "listings", fails,
                          [op |-> "listings", status |-> 500, req |-> req])
          ELSE \E ordered \in NaturalOrders(store["listings"]) :
                 ReadCommit(get_db(World), "listings", fails,
                     [op |-> "listings", status |-> 200, req |-> req,
                      body |-> get_documents(ordered, ListingsFilter(sku, merchant),
                                             OrDefault(limit, ListingsDefaultLimit))])

\* backend history
backend_history(merchant, sku, limit, fails) ==
    /\ svc = "backend"
    /\ LET req == [sku |-> sku, merchant |-> merchant, limit |-> limit]
       IN IF fails
          THEN ReadCommit(get_db(World), "pricehistory", fails,
                          [op |-> "history", status |-> 500, req |-> req])
          ELSE \E ordered \in NaturalOrders(store["pricehistory"]) :
                 ReadCommit(get_db(World), "pricehistory", fails,
                     [op |-> "history", status |-> 200, req |-> req,
                      body |-> get_documents(ordered, [merchant |-> merchant, sku |-> sku],
                                             OrDefault(limit, BackendHistoryDefaultLimit))])

----------------------------------------------------------------------------
(* SpecStore: searches followed by look-ups *)

StoreLimits == {0, 1}
StoreProviderParams == {None, Some(S_flipkart)}
StoreFaults == {{}, {1}, {2}, {3}, AllFail}
ReadLimits == {None, Some(1)}

NextStore ==
    \/ /\ SearchCount < MaxStoreSearches
       /\ \E n \in StoreLimits, p \in StoreProviderParams, F \in StoreFaults :
             \/ search_products("phone", n, p, F)
             \/ backend_search("phone", n, p, F)
    \/ \E sku \in {None, Some("AMZ-1")}, limit \in ReadLimits, fails \in BOOLEAN :
          \/ get_listings(sku, None, limit, fails)
          \/ backend_get_listings(sku, None, limit, fails)
    \/ \E limit \in ReadLimits, fails \in BOOLEAN :
          \/ price_history("amazon", "AMZ-1", limit, fails)
          \/ backend_history("amazon", "AMZ-1", limit, fails)

SpecStore == Init /\ [][NextStore]_vars

----------------------------------------------------------------------------
(* Claims about look-ups after searches *)

ListingColl == IF svc = "root" THEN "listing" ELSE "listings"

Stored(coll, sku, merchant) ==
    \E j \in 1..Len(store[coll]) :
        store[coll][j].sku = sku /\ store[coll][j].merchant = merchant

Returned(body, sku, merchant) ==
    \E i \in 1..Len(body) : body[i].sku = sku /\ body[i].merchant = merchant

\* the time the store recorded for the returned document d
StoredTime(coll, d) ==
    LET j == CHOOSE j \in 1..Len(store[coll]) : str_oid(store[coll][j]._id) = d._id
    IN store[coll][j].created_at

ListingsAnswered == resp.op = "listings" /\ resp.status = 200
HistoryAnswered == resp.op = "history" /\ resp.status = 200

\* C5 as written: the look-up that follows any answered search finds AMZ-1.
C5_AfterAnySearch ==
    [][(SearchAnswered
        /\ resp'.status = 200
        /\ resp'.req = [sku |-> Some("AMZ-1"), merchant |-> None, limit |-> None]
        /\ resp'.op = "listings")
          => Returned(resp'.body, "AMZ-1", "amazon")]_vars

\* a search that answered AMZ-1 and whose two inserts for AMZ-1 did not fail
\* leaves AMZ-1 in the listing and price-history collections
C5_Persisted ==
    (SearchAnswered
     /\ Returned(resp.body.results, "AMZ-1", "amazon")
     /\ [coll |-> ListingColl, sku |-> "AMZ-1"] \notin fault
     /\ [coll |-> "pricehistory", sku |-> "AMZ-1"] \notin fault)
        => Stored(ListingColl, "AMZ-1", "amazon") /\ Stored("pricehistory", "AMZ-1", "amazon")

\* while AMZ-1 is stored, an answered look-up for it returns it
C5_Found ==
    /\ (ListingsAnswered /\ resp.req.sku = Some("AMZ-1") /\ Stored(ListingColl, "AMZ-1", "amazon"))
          => Returned(resp.body, "AMZ-1", "amazon")
    /\ (HistoryAnswered /\ Stored("pricehistory", "AMZ-1", "amazon"))
          => Returned(resp.body, "AMZ-1", "amazon")

\* no step removes AMZ-1 from a collection
C5_Kept ==
    \A c \in {ListingColl, "pricehistory"} :
        Stored(c, "AMZ-1", "amazon") => Stored(c, "AMZ-1", "amazon")'

\* C5 as amended: a search that answered AMZ-1 and whose two inserts for AMZ-1
\* did not fail leaves AMZ-1 in the listing and price-history collections;
\* nothing ever removes it; and while it is stored every answered
\* /listings?sku=AMZ-1 and /history/amazon/AMZ-1 returns at least one record
\* for amazon's AMZ-1.
C5_AfterPersistedSearch == [](C5_Persisted /\ C5_Found) /\ [][C5_Kept]_vars

\* an answered look-up of AMZ-1 that returned it, in either service
C5_Witness ==
    /\ ListingsAnswered
    /\ resp.req.sku = Some("AMZ-1")
    /\ Len(store[ListingColl]) >= 2
    /\ Returned(resp.body, "AMZ-1", "amazon")

\* C8: a history look-up with limit L answers only records of the merchant
\* and sku asked for, at most L of them, newest first, and the L most recent.
C8_HistoryNewestFirst ==
    HistoryAnswered =>
        LET body == resp.body
            L == OrDefault(resp.req.limit,
                           IF svc = "root" THEN HistoryDefaultLimit
                           ELSE BackendHistoryDefaultLimit)
            all == Filter(store["pricehistory"],
                          [merchant |-> resp.req.merchant, sku |-> resp.req.sku])
        IN /\ \A i \in 1..Len(body) :
                 body[i].merchant = resp.req.merchant /\ body[i].sku = resp.req.sku
           /\ Len(body) = Min(L, Len(all))
           /\ \A i \in 1..Len(body) : \A j \in (i + 1)..Len(body) :
                 StoredTime("pricehistory", body[i]) >= StoredTime("pricehistory", body[j])
           /\ \A k \in 1..Len(all) :
                 (\A i \in 1..Len(body) : body[i]._id # str_oid(all[k]._id))
                     => \A i \in 1..Len(body) :
                           StoredTime("pricehistory", body[i]) >= all[k].created_at

----------------------------------------------------------------------------
(* Favorites *)

FavoritesCap == 200

\* FavoriteIn: user_id, sku, title, merchant and price are required
FavoriteValid(payload) == ~IsNone(payload.price)

\* FavoriteIn.model_dump(): currency is "INR" when the request leaves it out
model_dump(payload) ==
    [user_id |-> payload.user_id, sku |-> payload.sku, title |-> payload.title,
     merchant |-> payload.merchant, price |-> Val(payload.price),
     currency |-> IF IsNone(payload.currency) THEN "INR" ELSE Val(payload.currency)]

Unprocessable(payload) ==
    /\ ~FavoriteValid(payload)
    /\ Commit(World, [op |-> "add_favorite", status |-> 422, req |-> payload])
    /\ UNCHANGED clock

Created(w, payload) ==
    IF w.ok
    THEN [op |-> "add_favorite", status |-> 200, req |-> payload,
          body |-> [ok |-> TRUE, id |-> str_oid(w.last_id)]]
    ELSE [op |-> "add_favorite", status |-> 500, req |-> payload]

\* root add_favorite
add_favorite(payload, fails) ==
    /\ svc = "root"
    /\ \/ Unprocessable(payload)
       \/ /\ FavoriteValid(payload)
          /\ LET now == clock
                 w == root_create_document(World, "favorite",
                          Merge(model_dump(payload), [created_at |-> now]), now, fails)
             IN Commit(w, Created(w, payload))
          /\ clock' = clock + 1

\* backend add_favorite
backend_add_favorite(payload, fails) ==
    /\ svc = "backend"
    /\ \/ Unprocessable(payload)
       \/ /\ FavoriteValid(payload)
          /\ LET w == create_document(World, "favorite", model_dump(payload), clock, fails)
             IN Commit(w, Created(w, payload))
          /\ clock' = clock + 1

\* root list_favorites: sorted by created_at, newest first, no limit
list_favorites(user_id, fails) ==
    /\ svc = "root"
    /\ LET req == [user_id |-> user_id]
       IN IF IsNone(root_db) \/ fails
          THEN ReadCommit(World, "favorite", fails,
                          [op |-> "list_favorites", status |-> 500, req |-> req])
          ELSE \E ordered \in NaturalOrders(store["favorite"]) :
                 ReadCommit(World, "favorite", fails,
                     [op |-> "list_favorites", status |-> 200, req |-> req,
                      body |-> SerializeAll(
                          SortDesc(Filter(ordered, [user_id |-> user_id]), "created_at"))])

\* backend list_favorites: get_documents with limit 200 and no sort
backend_list_favorites(user_id, fails) ==
    /\ svc = "backend"
    /\ LET req == [user_id |-> user_id]
       IN IF fails
          THEN ReadCommit(get_db(World), "favorite", fails,
                          [op |-> "list_favorites", status |-> 500, req |-> req])
          ELSE \E ordered \in NaturalOrders(store["favorite"]) :
                 ReadCommit(get_db(World), "favorite", fails,
                     [op |-> "list_favorites", status |-> 200, req |-> req,
                      body |-> get_documents(ordered, [user_id |-> user_id], FavoritesCap)])

DeleteReq(fav_id) == [fav_id |-> fav_id]

\* a variant whose delete filter matches any favorite
delete_favorite_any_one(fav_id, fails) ==
    /\ svc = "root"
    /\ IF IsNone(root_db)
       THEN ReadCommit(World, "favorite", fails,
                       [op |-> "delete_favorite", status |-> 500, req |-> DeleteReq(fav_id)])
       ELSE IF ~ObjectIdValid(fav_id) \/ fails
       THEN ReadCommit(World, "favorite", fails,
                       [op |-> "delete_favorite", status |-> 400, req |-> DeleteReq(fav_id)])
       ELSE ReadCommit([World EXCEPT !.store["favorite"] = IF @ = <<>> THEN @ ELSE Tail(@)],
                       "favorite", fails,
                       [op |-> "delete_favorite", status |-> 200, req |-> DeleteReq(fav_id),
                        body |-> [ok |-> store["favorite"] # <<>>]])

\* root delete_favorite: every exception, an invalid identifier included, is a 400
delete_favorite(fav_id, fails) ==
    /\ svc = "root"
    /\ IF IsNone(root_db)
       THEN ReadCommit(World, "favorite", fails,
                       [op |-> "delete_favorite", status |-> 500, req |-> DeleteReq(fav_id)])
       ELSE IF ~ObjectIdValid(fav_id) \/ fails
       THEN ReadCommit(World, "favorite", fails,
                       [op |-> "delete_favorite", status |-> 400, req |-> DeleteReq(fav_id)])
       ELSE LET id == ObjectId(fav_id)
                n == deleted_count(store["favorite"], id)
            IN ReadCommit([World EXCEPT !.store["favorite"] = RemoveFirst(@, id)],
                          "favorite", fails,
                          [op |-> "delete_favorite", status |-> 200, req |-> DeleteReq(fav_id),
                           body |-> [ok |-> n = 1]])

\* backend delete_favorite: builds a client of its own on every call
backend_delete_favorite(fav_id, fails) ==
    /\ svc = "backend"
    /\ clients < MaxClients
    /\ LET w == [World EXCEPT !.clients = @ + 1]
       IN IF ~ObjectIdValid(fav_id) \/ fails
          THEN ReadCommit(w, "favorite", fails,
                          [op |-> "delete_favorite", status |-> 400, req |-> DeleteReq(fav_id)])
          ELSE LET id == ObjectId(fav_id)
                   n == deleted_count(store["favorite"], id)
               IN ReadCommit([w EXCEPT !.store["favorite"] = RemoveFirst(@, id)],
                             "favorite", fails,
                             [op |-> "delete_favorite", status |-> 200,
                              req |-> DeleteReq(fav_id),
                              body |-> [ok |-> TRUE, deleted |-> n]])

----------------------------------------------------------------------------
(* SpecFav: favorites created, listed and deleted *)

Payload(user, price, currency) ==
    [user_id |-> user, sku |-> "AMZ-1", title |-> "Phone", merchant |-> "amazon",
     price |-> price, currency |-> currency]

FavPayloads ==
    {Payload("u1", Some(104950), None), Payload("u1", Some(250), Some("USD")),
     Payload("u2", Some(104950), Some("INR")), Payload("u2", None, None)}

Users == {"u1", "u2"}

S_short == SubSeq(str_oid(1), 1, ObjectIdLen - 1)
S_nothex == [str_oid(1) EXCEPT ![1] = "g"]
S_upper == [str_oid(0) EXCEPT ![ObjectIdLen] = "A"]

FavIds == {str_oid(k) : k \in 1..MaxFavWrites} \cup {S_bogus, S_short, S_nothex, S_upper}

NextFav ==
    \/ /\ clock - 1 < MaxFavWrites
       /\ \E payload \in FavPayloads, fails \in BOOLEAN :
             \/ add_favorite(payload, fails)
             \/ backend_add_favorite(payload, fails)
    \/ \E user \in Users, fails \in BOOLEAN :
          \/ list_favorites(user, fails)
          \/ backend_list_favorites(user, fails)
    \/ \E fav_id \in FavIds, fails \in BOOLEAN :
          \/ delete_favorite(fav_id, fails)
          \/ backend_delete_favorite(fav_id, fails)

SpecFav == Init /\ [][NextFav]_vars

----------------------------------------------------------------------------
(* SpecFavCap: one user who keeps adding the same favorite *)

NextFavCap ==
    \/ /\ clock - 1 <= FavoritesCap
       /\ \/ add_favorite(Payload("u1", Some(104950), None), FALSE)
          \/ backend_add_favorite(Payload("u1", Some(104950), None), FALSE)
    \/ list_favorites("u1", FALSE)
    \/ backend_list_favorites("u1", FALSE)

SpecFavCap == Init /\ [][NextFavCap]_vars

----------------------------------------------------------------------------
(* Claims about favorites and the connection *)

\* the identifiers of the stored favorites, as the API writes them
FavoriteIds(docs) == {str_oid(docs[j]._id) : j \in 1..Len(docs)}

DeleteStep == resp'.op = "delete_favorite" /\ "fav_id" \in DOMAIN resp'.req

Without(docs, fav_id) == SelectSeq(docs, LAMBDA d : str_oid(d._id) # lower(fav_id))

C7_ListContainsCreated ==
    /\ (resp.op = "add_favorite" /\ resp.status = 200) =>
          \E j \in 1..Len(store["favorite"]) :
              LET d == store["favorite"][j]
              IN /\ str_oid(d._id) = resp.body.id
                 /\ d.price = Val(resp.req.price)
                 /\ d.currency = (IF IsNone(resp.req.currency) THEN "INR"
                                  ELSE Val(resp.req.currency))
                 /\ d.sku = resp.req.sku
                 /\ d.merchant = resp.req.merchant
    /\ (resp.op = "list_favorites" /\ resp.status = 200) =>
          LET returned == {[_id |-> resp.body[i]._id, price |-> resp.body[i].price,
                            currency |-> resp.body[i].currency, sku |-> resp.body[i].sku,
                            merchant |-> resp.body[i].merchant] : i \in 1..Len(resp.body)}
          IN /\ \A i \in 1..Len(resp.body) : resp.body[i].user_id = resp.req.user_id
             /\ \A j \in 1..Len(store["favorite"]) :
                   LET d == store["favorite"][j]
                   IN d.user_id = resp.req.user_id =>
                         [_id |-> str_oid(d._id), price |-> d.price, currency |-> d.currency,
                          sku |-> d.sku, merchant |-> d.merchant] \in returned

\* C10: no client exists before the first request that needs the database,
\* and no more than one is ever constructed.
C10_SingleConnection ==
    /\ resp.op = "none" => clients = 0
    /\ clients <= 1

----------------------------------------------------------------------------
(* Claims about the adapters and the credentials *)

VarsOf(provider) == IF provider = "amazon" THEN AmazonVars ELSE FlipkartVars
PrefixOf(provider) == IF provider = "amazon" THEN "AMZ" ELSE "FK"

\* what /providers says of a provider in the running service
Reported(provider) ==
    IF svc = "root"
    THEN (IF provider = "amazon" THEN has_amazon_keys ELSE has_flipkart_keys)
    ELSE (IF provider = "amazon" THEN AMAZON_KEYS_PRESENT ELSE FLIPKART_KEYS_PRESENT)

\* what a /providers response says of a provider
ReportedIn(r, provider) ==
    IF "providers" \in DOMAIN r.body
    THEN \E i \in 1..Len(r.body.providers) :
            r.body.providers[i].name = provider /\ r.body.providers[i].enabled
    ELSE r.body[provider].configured

\* C3: without the provider's credentials an adapter given a limit n >= 0
\* returns n records, skus PREFIX-1 .. PREFIX-n in order, all of the provider,
\* with prices that rise by the same positive amount from each to the next.
C3_MockFetch ==
    (resp.op = "fetch" /\ resp.limit >= 0
     /\ \E v \in VarsOf(resp.provider) : ~Truthy(environ[v]))
        => /\ Len(resp.body) = resp.limit
           /\ \A i \in 1..Len(resp.body) :
                 /\ resp.body[i].sku = PrefixOf(resp.provider) \o "-" \o ToString(i)
                 /\ resp.body[i].merchant = resp.provider
           /\ \A i \in 1..(Len(resp.body) - 1) :
                 /\ resp.body[i + 1].price > resp.body[i].price
                 /\ resp.body[i + 1].price - resp.body[i].price
                       = resp.body[2].price - resp.body[1].price

\* the root flipkart adapter returned three mock records
C3_Witness ==
    /\ resp.op = "fetch"
    /\ svc = "root"
    /\ resp.provider = "flipkart"
    /\ resp.limit = 3
    /\ Len(resp.body) = 3

\* C9 as written: a provider is reported configured exactly when all of its
\* variables are set.
C9_ConfiguredIffSet ==
    resp.op = "providers" =>
        \A p \in {"amazon", "flipkart"} :
            ReportedIn(resp, p) <=> \A v \in VarsOf(p) : ~IsNone(environ[v])

\* the report follows the non-empty variables, and the adapter follows the report
C9_ReportAndAdapter ==
    /\ resp.op = "providers" =>
          \A p \in {"amazon", "flipkart"} :
              ReportedIn(resp, p) <=> \A v \in VarsOf(p) : Truthy(environ[v])
    /\ resp.op = "fetch" =>
          IF Reported(resp.provider) THEN resp.body = <<>>
          ELSE Len(resp.body) = Max(resp.limit, 0)

\* no step changes what is reported
C9_FlagsFixed ==
    \A p \in {"amazon", "flipkart"} : Reported(p)' = Reported(p)

\* C9 as amended: a provider is reported configured exactly when all of its
\* variables are set to non-empty values; its adapter returns nothing when it
\* is reported configured and mock results when it is not; and what is
\* reported never changes.
C9_CredentialPresence == []C9_ReportAndAdapter /\ [][C9_FlagsFixed]_vars

\* amazon is reported configured while flipkart, one variable set to the
\* empty string, is not
C9_Witness ==
    /\ resp.op = "providers"
    /\ ReportedIn(resp, "amazon")
    /\ ~ReportedIn(resp, "flipkart")
    /\ environ["FLIPKART_AFFILIATE_ID"] = Some("")
    /\ environ["FLIPKART_AFFILIATE_TOKEN"] = Some("k")

====
